---- MODULE Spec2Model ----
(***************************************************************************)
(* Model of src/ui_audit.py: the Splitfin UI audit run.                    *)
(*                                                                         *)
(* main() launches one browser page, logs in once, visits the routes of    *)
(* PAGES in order inside a try/except per route, writes one JSON report    *)
(* and closes the browser.  login() and wait_stable() are subroutines; a   *)
(* call pushes the caller's continuation on `stack`.  capture_structure()  *)
(* is a pure function of the rendered document.                            *)
(*                                                                         *)
(* Strings whose length matters (body text, button texts) are run-length   *)
(* encoded: a sequence of runs [x |-> character, n |-> repetitions].  The  *)
(* list of button elements is run-length encoded the same way, a run being *)
(* n consecutive elements with the same innerText.  URLs and paths are     *)
(* sequences of tokens, and `'login' in s` is token membership.            *)
(***************************************************************************)
EXTENDS Integers, Sequences, FiniteSets, TLC

\* ------------------------------------------------------------------ bounds

\* Number of entries of PAGES the run visits.
NumRoutes == 2

\* Longest body text of the extractor inputs, in runs.
MaxTextRuns == 4

\* Longest button element list of the extractor inputs, in runs.
MaxButtonRuns == 2

\* --------------------------------------------------------------- constants

\* bodyText.substring(0, 2000)
TextLimit == 2000

\* t.length < 80
LabelLimit == 80

\* .slice(0, 30)
LabelCap == 30

SITE == <<"https://splitfin.co.uk">>

SCREENSHOTS_DIR == "./screenshots"

REPORT_FILE == "./screenshots/ui_audit_report.json"

VIEWPORT == [width |-> 1440, height |-> 900]

PAGES ==
  << [path |-> <<"/", "dashboard">>,                 name |-> "01-dashboard"],
     [path |-> <<"/", "orders">>,                    name |-> "02-orders"],
     [path |-> <<"/", "order", "/", "10130">>,       name |-> "03-order-detail"],
     [path |-> <<"/", "customers">>,                 name |-> "04-customers"],
     [path |-> <<"/", "customers", "/", "1">>,       name |-> "05-customer-detail"],
     [path |-> <<"/", "enquiries">>,                 name |-> "06-enquiries"],
     [path |-> <<"/", "inventory", "/", "products">>, name |-> "07-products"],
     [path |-> <<"/", "settings", "/", "general">>,  name |-> "08-settings"] >>

\* The routes of this run: the first NumRoutes entries of PAGES.
Routes == SubSeq(PAGES, 1, IF NumRoutes < Len(PAGES) THEN NumRoutes ELSE Len(PAGES))

\* ------------------------------------------------ run-length encoded text

NL == "\n"
SP == " "

Whitespace == {NL, SP}

Run(x, n) == [x |-> x, n |-> n]

\* s.length (also: the number of elements of an encoded list)
RECURSIVE RLen(_)
RLen(s) == IF s = <<>> THEN 0 ELSE s[1].n + RLen(Tail(s))

\* s.substring(0, k) and list.slice(0, k)
RECURSIVE Take(_, _)
Take(s, k) ==
  IF k <= 0 \/ s = <<>> THEN <<>>
  ELSE IF s[1].n >= k THEN << Run(s[1].x, k) >>
  ELSE << s[1] >> \o Take(Tail(s), k - s[1].n)

RECURSIVE DropNewlines(_)
DropNewlines(s) ==
  IF s # <<>> /\ s[1].x = NL THEN DropNewlines(Tail(s)) ELSE s

\* A plausible slip: the regular expression without the g flag replaces the
\* first run of newlines only.
CollapseFirstOnly(s) ==
  IF \E i \in 1..Len(s) : s[i].x = NL
  THEN LET i == CHOOSE j \in 1..Len(s) :
                  s[j].x = NL /\ \A k \in 1..(j - 1) : s[k].x # NL
       IN  SubSeq(s, 1, i - 1) \o << Run(NL, 1) >> \o DropNewlines(SubSeq(s, i, Len(s)))
  ELSE s

\* s.replace(/\n+/g, '\n'): every maximal run of newlines becomes one newline.
RECURSIVE CollapseNewlines(_)
CollapseNewlines(s) ==
  IF s = <<>> THEN <<>>
  ELSE IF s[1].x = NL
       THEN << Run(NL, 1) >> \o CollapseNewlines(DropNewlines(Tail(s)))
       ELSE << s[1] >> \o CollapseNewlines(Tail(s))

RECURSIVE TrimStart(_)
TrimStart(s) ==
  IF s # <<>> /\ s[1].x \in Whitespace THEN TrimStart(Tail(s)) ELSE s

RECURSIVE TrimEnd(_)
TrimEnd(s) ==
  IF s # <<>> /\ s[Len(s)].x \in Whitespace
  THEN TrimEnd(SubSeq(s, 1, Len(s) - 1)) ELSE s

\* s.trim()
Trim(s) == TrimEnd(TrimStart(s))

\* const textSummary = bodyText.substring(0, 2000).replace(/\n+/g, '\n').trim()
TextSummary(bodyText) == Trim(CollapseNewlines(Take(bodyText, TextLimit)))

\* .map(b => b.innerText.trim())
RECURSIVE MapTrim(_)
MapTrim(l) ==
  IF l = <<>> THEN <<>>
  ELSE << Run(Trim(l[1].x), l[1].n) >> \o MapTrim(Tail(l))

\* t => t.length > 0 && t.length < 80
LabelKept(t) == RLen(t) > 0 /\ RLen(t) < LabelLimit

\* .filter(t => t.length > 0 && t.length < 80)
RECURSIVE FilterLabels(_)
FilterLabels(l) ==
  IF l = <<>> THEN <<>>
  ELSE (IF LabelKept(l[1].x) THEN << l[1] >> ELSE <<>>) \o FilterLabels(Tail(l))

\* A plausible slip: the cap taken before the filter.
ButtonLabelsCapFirst(buttons) == FilterLabels(Take(MapTrim(buttons), LabelCap))

\* const buttonLabels = Array.from(...).map(...).filter(...).slice(0, 30)
ButtonLabels(buttons) == Take(FilterLabels(MapTrim(buttons)), LabelCap)

\* capture_structure(page): the value page.evaluate returns for document d.
\* d.href is window.location.href; d.elements are the querySelectorAll counts and
\* headings of the document, d.sidebar its navigation anchors with non-empty text.
capture_structure(d) ==
  [ title        |-> d.title,
    url          |-> d.href,
    textSummary  |-> TextSummary(d.bodyText),
    elements     |-> d.elements,
    buttonLabels |-> ButtonLabels(d.buttons),
    sidebarItems |-> d.sidebar ]

\* ------------------------------------------------------------- the state

VARIABLES
  pc,          \* the statement about to run
  stack,       \* continuations of the callers of login() and wait_stable()
  idx,         \* position of the for loop in Routes (0 before the loop)
  results,     \* main's `results` list
  page,        \* the browser page: [url, form]; form: the login form is rendered
  authed,      \* the server holds an authenticated session for this browser
  browser,     \* "none" | "open" | "closed"
  playwright,  \* "none" | "running" | "stopped"
  exc,         \* message of the exception propagating out of main, or "none"
  err,         \* str(e) of the exception caught by the route's except clause
  failed,      \* the operation that raised while processing the current route, or "none"
  faults,      \* number of driver/OS faults raised so far
  ops,         \* operations performed since the current route was taken (or since start)
  logins,      \* number of calls of login() so far
  lost,        \* number of routes whose first visit ended on a login URL (session lost)
  waitOutcome, \* the wait_for_load_state attempts of the running wait_stable call
  returned,    \* value returned by the last completed login()
  s,           \* capture_structure's result for the current route
  doc,         \* the document capture_structure was evaluated in
  actual,      \* main's `actual`
  report,      \* content of REPORT_FILE, or NoReport
  writes,      \* number of times REPORT_FILE was written
  shots        \* screenshot files written

vars == << pc, stack, idx, results, page, authed, browser, playwright,
           exc, err, failed, faults, ops, logins, lost, waitOutcome, returned, s,
           doc, actual, report, writes, shots >>

\* Faults (timeouts, crashed target, unencodable output, full disk) the environment
\* raises in one run.
MaxFaults == 2

NoReport == [absent |-> TRUE]

NoSummary == [absent |-> TRUE]

NoDoc == [absent |-> TRUE]

\* ------------------------------------------------------------ the web site

BlankPage == [url |-> <<"about:blank">>, form |-> FALSE]

LoginUrl == SITE \o <<"/", "login">>

HomeUrl == SITE \o <<"/", "dashboard">>

\* 'login' in u
Contains(u, token) == \E i \in 1..Len(u) : u[i] = token

\* The server may expire an authenticated session before any request.
SessionAfter(a) == IF a THEN {TRUE, FALSE} ELSE {FALSE}

\* The pages a navigation to `target` can land on, with the session state a2 the
\* server has when it answers.  The site root shows an authenticated session the
\* application, or the login form again; it shows any other session the login
\* form, at the root or at the login URL.
Landings(target, a2) ==
  IF target = SITE
  THEN IF a2
       THEN {[url |-> HomeUrl, form |-> FALSE], [url |-> SITE, form |-> TRUE]}
       ELSE {[url |-> SITE, form |-> TRUE], [url |-> LoginUrl, form |-> TRUE]}
  ELSE IF a2 THEN {[url |-> target, form |-> FALSE]}
             ELSE {[url |-> LoginUrl, form |-> TRUE]}

EmptyElements ==
  [forms |-> 0, tables |-> 0, buttons |-> 0, inputs |-> 0, cards |-> 0,
   modals |-> 0, links |-> 0, images |-> 0, headings |-> <<>>]

\* The documents the site renders at a URL.
PlainDoc(u) ==
  [href |-> u, title |-> "", bodyText |-> <<>>, buttons |-> <<>>,
   elements |-> EmptyElements, sidebar |-> <<>>]

RichDoc(u) ==
  [href |-> u, title |-> "Splitfin",
   bodyText |-> << Run("a", 5), Run(NL, 2), Run("b", 3), Run(NL, 1) >>,
   buttons |-> << Run(<< Run("a", 4) >>, 2), Run(<<>>, 1) >>,
   elements |-> [EmptyElements EXCEPT !.tables = 1, !.buttons = 3, !.links = 1,
                    !.headings = << [tag |-> "H1", text |-> "Orders"] >>],
   sidebar |-> << [text |-> "Orders", href |-> "/orders"] >>]

LoginDoc(u) ==
  [href |-> u, title |-> "Login",
   bodyText |-> << Run("a", 5), Run(NL, 1), Run("b", 3) >>,
   buttons |-> << Run(<< Run(SP, 1), Run("a", 7) >>, 1) >>,
   elements |-> [EmptyElements EXCEPT !.forms = 1, !.buttons = 1, !.inputs = 2],
   sidebar |-> <<>>]

Documents(pg) ==
  IF pg.form THEN {LoginDoc(pg.url)} ELSE {PlainDoc(pg.url), RichDoc(pg.url)}

\* str(e) of the exception each operation raises.
ErrText(op) ==
  CASE op \in {"m_goto", "m_regoto"} -> "Page.goto: Timeout 20000ms exceeded."
    [] op = "lg_goto"    -> "Page.goto: Timeout 30000ms exceeded."
    [] op \in {"lg_agent", "lg_pin"} -> "Page.fill: Timeout 30000ms exceeded."
    [] op = "lg_click"   -> "Page.click: Timeout 30000ms exceeded."
    [] op \in {"lg_shot", "m_shot"} -> "Page.screenshot: Target page, context or browser has been closed"
    [] op \in {"ws_settle", "lg_settle"} -> "Page.wait_for_timeout: Target page, context or browser has been closed"
    [] op = "m_capture"  -> "Page.evaluate: TypeError: Cannot read properties of undefined (reading 'trim')"
    [] op = "m_print"    -> "'charmap' codec can't encode character"
    [] op = "m_report"   -> "[Errno 28] No space left on device"
    [] op = "launch"     -> "BrowserType.launch: Executable doesn't exist"
    [] op = "m_close"    -> "Browser.close: Connection closed"
    [] OTHER             -> "Error"

\* ------------------------------------------------------- control helpers

\* The statements of main() inside `try:` (lines 120-153), as positions of main.
TryLabels == {"m_goto", "m_wait", "m_check", "m_relogin", "m_regoto", "m_rewait",
              "m_shot", "m_capture", "m_append", "m_print"}

\* A plausible slip: the first navigation placed before `try:`.
InTryAfterGoto(pos) == pos \in TryLabels \ {"m_goto"}

\* A plausible slip: the recovery (login and re-navigation) outside the try block.
InTryWithoutRecovery(pos) == pos \in TryLabels \ {"m_relogin", "m_regoto"}

InTry(pos) == pos \in TryLabels

\* Where main() is: its own statement, or the continuation it left on the stack.
MainPos == IF stack = <<>> THEN pc ELSE stack[Len(stack)]

\* A plausible slip: the initial login wrapped in `try: ... except Exception: pass`.
UncaughtLoginSwallowed(pos) == IF pos = "m_results" THEN "m_results" ELSE "with_exit"

\* An exception that no except clause catches leaves the `with` block, wherever
\* main() is.
Uncaught(pos) == "with_exit"

\* A plausible slip: the except clause records nothing and the loop goes on.
HandlerSkip == "m_for"

\* `except Exception as e:` of the route's try statement.
Handler == "m_except"

\* A call: the callee starts at `entry`, the caller continues at `ret`.
Call(entry, ret) == pc' = entry /\ stack' = << ret >> \o stack

Return == pc' = Head(stack) /\ stack' = Tail(stack)

Log(op) == ops' = Append(ops, op)

\* Operation `op` raises: the frames of login() and wait_stable() are unwound; the
\* route's except clause catches it when main() is inside the try statement.
Raise(op) ==
  /\ Log(op)
  /\ failed' = op
  /\ stack' = <<>>
  /\ IF InTry(MainPos)
     THEN pc' = Handler /\ err' = ErrText(op) /\ exc' = exc
     ELSE pc' = Uncaught(MainPos) /\ exc' = ErrText(op) /\ err' = err

\* The environment makes `op` fail (a timeout, a closed target, an OS error).
Fault(op) ==
  /\ faults < MaxFaults
  /\ faults' = faults + 1
  /\ Raise(op)

\* An operation on a selector of the login form: it raises when the form is not
\* rendered (the selector never appears) or when the environment makes it fail.
FormOpRaises(op) ==
  /\ page.form => faults < MaxFaults
  /\ faults' = IF page.form THEN faults + 1 ELSE faults
  /\ Raise(op)

\* url = SITE + pg['path']
Url(pg) == SITE \o pg.path

\* A plausible slip: one file name for every route.
ScreenshotPathShared(name) == << SCREENSHOTS_DIR, "/", "page", ".png" >>

\* screenshot_path = f"{SCREENSHOTS_DIR}/{name}.png"
ScreenshotPath(name) == << SCREENSHOTS_DIR, "/", name, ".png" >>

LoginShot == << SCREENSHOTS_DIR, "/", "00-login", ".png" >>

\* A plausible slip: the re-login made whatever URL the visit reached.
SessionLostAnyUrl(act, path) == ~Contains(path, "login")

\* if 'login' in actual and 'login' not in pg['path']
SessionLost(act, path) == Contains(act, "login") /\ ~Contains(path, "login")

\* result = {...} (lines 134-144)
SuccessEntry(pg, u, st) ==
  [ name          |-> pg.name,
    intended_path |-> pg.path,
    actual_url    |-> u,
    screenshot    |-> ScreenshotPath(pg.name),
    title         |-> st.title,
    text_summary  |-> st.textSummary,
    elements      |-> st.elements,
    button_labels |-> st.buttonLabels,
    sidebar_items |-> st.sidebarItems ]

\* A plausible slip: the failure entry built from the success entry's keys.
FailureEntryWithScreenshot(pg, e) ==
  [ name |-> pg.name, intended_path |-> pg.path, error |-> e,
    screenshot |-> ScreenshotPath(pg.name) ]

\* {'name': name, 'intended_path': pg['path'], 'error': str(e)}
FailureEntry(pg, e) ==
  [ name |-> pg.name, intended_path |-> pg.path, error |-> e ]

\* report = {...} (lines 159-164)
Report(res) ==
  [ site |-> SITE, viewport |-> VIEWPORT, timestamp |-> "%Y-%m-%d %H:%M:%S",
    pages |-> res ]

\* A plausible slip: the loop stops one route short.
LoopDoneOffByOne(i) == i >= Len(Routes) - 1

\* `for pg in PAGES` is exhausted after position i.
LoopDone(i) == i >= Len(Routes)

\* A plausible slip: the driver started without the `with` block, so nothing
\* closes the browser when an exception skips browser.close().
LeaveBrowserOpen(b) == b

\* Leaving `with sync_playwright() as p`: the driver is stopped, and with it every
\* browser it launched that is still open.
StopPlaywright(b) == IF b = "open" THEN "closed" ELSE b

\* What an operation that raises leaves alone.
RaiseFrame ==
  UNCHANGED << idx, results, page, authed, browser, playwright, logins, lost,
               waitOutcome, returned, s, doc, actual, report, writes, shots >>

\* A statement that completes: control moves on, nothing is raised.
Step(from, to, op) ==
  /\ pc = from
  /\ pc' = to
  /\ Log(op)
  /\ UNCHANGED << stack, exc, err, failed, faults >>

\* page.goto(target, ...) completes: the page shows where the site sent it.
Navigate(target) ==
  \E a2 \in SessionAfter(authed) :
    \E l \in Landings(target, a2) :
      page' = l /\ authed' = a2

\* ---------------------------------------------------------- wait_stable()

\* def wait_stable(page, timeout=10000)
DefaultTimeout == 10000

\* wait_stable(page, timeout=15000), the call after the submit click in login()
LoginTimeout == 15000

\* page.wait_for_load_state('domcontentloaded', timeout=5000)
ContentTimeout == 5000

\* The timeout argument of the running wait_stable call, given by its call site.
WaitTimeout == IF Head(stack) = "lg_settle" THEN LoginTimeout ELSE DefaultTimeout

\* One page.wait_for_load_state(signal, timeout=...) and how it ended.
Attempt(signal, timeout, outcome) ==
  [signal |-> signal, timeout |-> timeout, outcome |-> outcome]

\* A plausible slip: a timed-out first wait skips the second one.
AfterNetworkIdleSkip(o) == IF o = "timeout" THEN "ws_settle" ELSE "ws_dom"

\* except Exception: pass, then the second try statement whatever the outcome
AfterNetworkIdle(o) == "ws_dom"

\* page.wait_for_load_state('networkidle', timeout=timeout), except: pass
WsNetworkIdle ==
  /\ pc = "ws_net"
  /\ \E o \in {"ok", "timeout"} :
       /\ waitOutcome' = << Attempt("networkidle", WaitTimeout, o) >>
       /\ Step("ws_net", AfterNetworkIdle(o), "ws_net")
  /\ UNCHANGED << idx, results, page, authed, browser, playwright, logins, lost,
                  returned, s, doc, actual, report, writes, shots >>

\* page.wait_for_load_state('domcontentloaded', timeout=5000), except: pass
WsDomContentLoaded ==
  /\ \E o \in {"ok", "timeout"} :
       waitOutcome' = Append(waitOutcome, Attempt("domcontentloaded", ContentTimeout, o))
  /\ Step("ws_dom", "ws_settle", "ws_dom")
  /\ UNCHANGED << idx, results, page, authed, browser, playwright, logins, lost,
                  returned, s, doc, actual, report, writes, shots >>

\* page.wait_for_timeout(2000), outside any try; then wait_stable returns.
WsSettle ==
  /\ pc = "ws_settle"
  /\ \/ /\ Return
        /\ Log("ws_settle")
        /\ waitOutcome' = <<>>
        /\ UNCHANGED << exc, err, failed, faults, idx, results, page, authed, browser, playwright, logins, lost, returned, s, doc, actual, report,
                        writes, shots >>
     \/ Fault("ws_settle") /\ RaiseFrame

\* ----------------------------------------------------------------- login()

\* page.goto(SITE, wait_until='domcontentloaded', timeout=30000)
LgGoto ==
  /\ pc = "lg_goto"
  /\ \/ /\ Step("lg_goto", "lg_wait", "lg_goto")
        /\ Navigate(SITE)
        /\ UNCHANGED << idx, results, browser, playwright, logins, lost,
                        waitOutcome, returned, s, doc, actual, report, writes, shots >>
     \/ Fault("lg_goto") /\ RaiseFrame

\* wait_stable(page)
LgWait ==
  /\ pc = "lg_wait"
  /\ Call("ws_net", "lg_shot")
  /\ UNCHANGED << idx, results, page, authed, browser, playwright, exc, err,
                  failed, faults, ops, logins, lost, waitOutcome, returned, s, doc, actual,
                  report, writes, shots >>

\* page.screenshot(path=f"{SCREENSHOTS_DIR}/00-login.png", full_page=True)
LgShot ==
  /\ pc = "lg_shot"
  /\ \/ /\ Step("lg_shot", "lg_agent", "lg_shot")
        /\ shots' = shots \cup {LoginShot}
        /\ UNCHANGED << idx, results, page, authed, browser, playwright,
                        logins, lost, waitOutcome, returned, s, doc, actual, report, writes >>
     \/ Fault("lg_shot") /\ RaiseFrame

\* page.fill('#agentId', 'matt')
LgFillAgent ==
  /\ pc = "lg_agent"
  /\ \/ /\ page.form
        /\ Step("lg_agent", "lg_pin", "lg_agent")
        /\ UNCHANGED << idx, results, page, authed, browser, playwright,
                        logins, lost, waitOutcome, returned, s, doc, actual, report, writes, shots >>
     \/ FormOpRaises("lg_agent") /\ RaiseFrame

\* page.fill('#pin', '1234')
LgFillPin ==
  /\ pc = "lg_pin"
  /\ \/ /\ page.form
        /\ Step("lg_pin", "lg_click", "lg_pin")
        /\ UNCHANGED << idx, results, page, authed, browser, playwright,
                        logins, lost, waitOutcome, returned, s, doc, actual, report, writes, shots >>
     \/ FormOpRaises("lg_pin") /\ RaiseFrame

\* page.click('button[type="submit"]'): the server accepts the credentials and
\* sends the page to the application, or rejects them and shows the form again.
LgClick ==
  /\ pc = "lg_click"
  /\ \/ /\ page.form
        /\ Step("lg_click", "lg_wait2", "lg_click")
        /\ \E accepted \in BOOLEAN :
             IF accepted
             THEN authed' = TRUE /\ page' = [url |-> HomeUrl, form |-> FALSE]
             ELSE authed' = authed /\ page' = [url |-> LoginUrl, form |-> TRUE]
        /\ UNCHANGED << idx, results, browser, playwright, logins, lost,
                        waitOutcome, returned, s, doc, actual, report, writes, shots >>
     \/ FormOpRaises("lg_click") /\ RaiseFrame

\* wait_stable(page, timeout=15000)
LgWait2 ==
  /\ pc = "lg_wait2"
  /\ Call("ws_net", "lg_settle")
  /\ UNCHANGED << idx, results, page, authed, browser, playwright, exc, err,
                  failed, faults, ops, logins, lost, waitOutcome, returned, s, doc, actual,
                  report, writes, shots >>

\* page.wait_for_timeout(2000)
LgSettle ==
  /\ pc = "lg_settle"
  /\ \/ /\ Step("lg_settle", "lg_return", "lg_settle")
        /\ UNCHANGED << idx, results, page, authed, browser, playwright,
                        logins, lost, waitOutcome, returned, s, doc, actual, report, writes, shots >>
     \/ Fault("lg_settle") /\ RaiseFrame

\* A plausible slip: the requested URL returned instead of the current one.
LoginResultRequested(pg) == SITE

\* The value login() returns: the URL the page is at when it returns.
LoginResult(pg) == pg.url

\* return page.url
LgReturn ==
  /\ pc = "lg_return"
  /\ Return
  /\ returned' = LoginResult(page)
  /\ UNCHANGED << idx, results, page, authed, browser, playwright, exc, err,
                  failed, faults, ops, logins, lost, waitOutcome, s, doc, actual, report, writes,
                  shots >>

\* ------------------------------------------------------------------ main()

\* with sync_playwright() as p: browser = p.chromium.launch(...); context; page
Launch ==
  /\ pc = "start"
  /\ playwright' = "running"
  /\ \/ /\ Step("start", "m_login", "launch")
        /\ browser' = "open"
        /\ page' = BlankPage
        /\ UNCHANGED << idx, results, authed, logins, lost, waitOutcome, returned,
                        s, doc, actual, report, writes, shots >>
     \/ /\ Fault("launch")
        /\ UNCHANGED << idx, results, page, authed, browser, logins, lost,
                        waitOutcome, returned, s, doc, actual, report, writes, shots >>

\* login(page), line 108: before the loop and outside the try statement
MLogin ==
  /\ pc = "m_login"
  /\ Call("lg_goto", "m_results")
  /\ logins' = logins + 1
  /\ lost' = lost
  /\ Log("login")
  /\ UNCHANGED << idx, results, page, authed, browser, playwright, exc, err,
                  failed, faults, waitOutcome, returned, s, doc, actual, report, writes,
                  shots >>

\* results = []
MResults ==
  /\ pc = "m_results"
  /\ pc' = "m_for"
  /\ results' = <<>>
  /\ UNCHANGED << stack, idx, page, authed, browser, playwright, exc, err,
                  failed, faults, ops, logins, lost, waitOutcome, returned, s, doc, actual,
                  report, writes, shots >>

\* for pg in PAGES: the next route is taken (lines 112-117)
ForNext ==
  /\ pc = "m_for"
  /\ ~LoopDone(idx)
  /\ idx' = idx + 1
  /\ pc' = "m_goto"
  /\ ops' = <<>>
  /\ failed' = "none"
  /\ err' = "none"
  /\ s' = NoSummary
  /\ doc' = NoDoc
  /\ actual' = <<>>
  /\ UNCHANGED << stack, results, page, authed, browser, playwright, exc,
                  faults, logins, lost, waitOutcome, returned, report, writes, shots >>

\* for pg in PAGES: the list is exhausted
ForEnd ==
  /\ pc = "m_for"
  /\ LoopDone(idx)
  /\ pc' = "m_report"
  /\ UNCHANGED << stack, idx, results, page, authed, browser, playwright,
                  exc, err, failed, faults, ops, logins, lost, waitOutcome, returned, s, doc,
                  actual, report, writes, shots >>

\* page.goto(url, wait_until='domcontentloaded', timeout=20000), line 120
MGoto ==
  /\ pc = "m_goto"
  /\ \/ /\ Step("m_goto", "m_wait", "m_goto")
        /\ Navigate(Url(Routes[idx]))
        /\ UNCHANGED << idx, results, browser, playwright, logins, lost,
                        waitOutcome, returned, s, doc, actual, report, writes, shots >>
     \/ Fault("m_goto") /\ RaiseFrame

\* wait_stable(page), line 121
MWait ==
  /\ pc = "m_wait"
  /\ Call("ws_net", "m_check")
  /\ UNCHANGED << idx, results, page, authed, browser, playwright, exc, err,
                  failed, faults, ops, logins, lost, waitOutcome, returned, s, doc, actual,
                  report, writes, shots >>

\* actual = page.url; if 'login' in actual and 'login' not in pg['path']:
MCheck ==
  /\ pc = "m_check"
  /\ actual' = page.url
  /\ lost' = IF Contains(page.url, "login") /\ ~Contains(Routes[idx].path, "login")
             THEN lost + 1 ELSE lost
  /\ pc' = IF SessionLost(page.url, Routes[idx].path) THEN "m_relogin" ELSE "m_shot"
  /\ UNCHANGED << stack, idx, results, page, authed, browser, playwright,
                  exc, err, failed, faults, ops, logins, waitOutcome, returned, s, doc,
                  report, writes, shots >>

\* login(page), line 126
MRelogin ==
  /\ pc = "m_relogin"
  /\ Call("lg_goto", "m_regoto")
  /\ logins' = logins + 1
  /\ lost' = lost
  /\ Log("login")
  /\ UNCHANGED << idx, results, page, authed, browser, playwright, exc, err,
                  failed, faults, waitOutcome, returned, s, doc, actual, report, writes,
                  shots >>

\* page.goto(url, wait_until='domcontentloaded', timeout=20000), line 127
MRegoto ==
  /\ pc = "m_regoto"
  /\ \/ /\ Step("m_regoto", "m_rewait", "m_regoto")
        /\ Navigate(Url(Routes[idx]))
        /\ UNCHANGED << idx, results, browser, playwright, logins, lost,
                        waitOutcome, returned, s, doc, actual, report, writes, shots >>
     \/ Fault("m_regoto") /\ RaiseFrame

\* A plausible slip: the session check repeated after the recovery.
AfterRecoveryRecheck == "m_check"

\* The statement after the recovery's wait_stable: the screenshot, line 130.
AfterRecovery == "m_shot"

\* wait_stable(page), line 128
MRewait ==
  /\ pc = "m_rewait"
  /\ Call("ws_net", AfterRecovery)
  /\ UNCHANGED << idx, results, page, authed, browser, playwright, exc, err,
                  failed, faults, ops, logins, lost, waitOutcome, returned, s, doc, actual,
                  report, writes, shots >>

\* page.screenshot(path=screenshot_path, full_page=True)
MShot ==
  /\ pc = "m_shot"
  /\ \/ /\ Step("m_shot", "m_capture", "m_shot")
        /\ shots' = shots \cup {ScreenshotPath(Routes[idx].name)}
        /\ UNCHANGED << idx, results, page, authed, browser, playwright,
                        logins, lost, waitOutcome, returned, s, doc, actual, report, writes >>
     \/ Fault("m_shot") /\ RaiseFrame

\* s = capture_structure(page)
MCapture ==
  /\ pc = "m_capture"
  /\ \/ /\ Step("m_capture", "m_append", "m_capture")
        /\ \E d \in Documents(page) : doc' = d /\ s' = capture_structure(d)
        /\ UNCHANGED << idx, results, page, authed, browser, playwright,
                        logins, lost, waitOutcome, returned, actual, report, writes, shots >>
     \/ Fault("m_capture") /\ RaiseFrame

\* result = {...}; results.append(result)
\* A plausible slip: the entry records the URL read for the session check.
ActualUrlAtCheck == actual

\* 'actual_url': page.url, read again when the entry is built
ActualUrl == page.url

MAppend ==
  /\ pc = "m_append"
  /\ pc' = "m_print"
  /\ results' = Append(results, SuccessEntry(Routes[idx], ActualUrl, s))
  /\ UNCHANGED << stack, idx, page, authed, browser, playwright, exc, err,
                  failed, faults, ops, logins, lost, waitOutcome, returned, s, doc, actual,
                  report, writes, shots >>

\* Lines 150-153 print text of the document: its headings and button labels.
PrintsDocumentText(st) == st.elements.headings # <<>> \/ st.buttonLabels # <<>>

\* The prints of lines 147-153, still inside the try statement.  Writing document
\* text to stdout raises (UnicodeEncodeError, an Exception) when the stream cannot
\* encode it.
MPrint ==
  /\ pc = "m_print"
  /\ \/ /\ pc' = "m_for"
        /\ UNCHANGED << stack, idx, results, page, authed, browser,
                        playwright, exc, err, failed, faults, ops, logins, lost, waitOutcome,
                        returned, s, doc, actual, report, writes, shots >>
     \/ /\ PrintsDocumentText(s)
        /\ Fault("m_print")
        /\ RaiseFrame

\* except Exception as e: results.append({... 'error': str(e)}), lines 155-157
MExcept ==
  /\ pc = "m_except"
  /\ pc' = "m_for"
  /\ results' = Append(results, FailureEntry(Routes[idx], err))
  /\ UNCHANGED << stack, idx, page, authed, browser, playwright, exc, err,
                  failed, faults, ops, logins, lost, waitOutcome, returned, s, doc, actual,
                  report, writes, shots >>

\* report = {...}; with open(REPORT_FILE, 'w') as f: json.dump(report, f, indent=2)
MReport ==
  /\ pc = "m_report"
  /\ \/ /\ pc' = "m_close"
        /\ report' = Report(results)
        /\ writes' = writes + 1
        /\ UNCHANGED << stack, idx, results, page, authed, browser,
                        playwright, exc, err, failed, faults, ops, logins, lost, waitOutcome,
                        returned, s, doc, actual, shots >>
     \/ Fault("m_report") /\ RaiseFrame

\* browser.close(), line 173 (after the closing prints)
MClose ==
  /\ pc = "m_close"
  /\ \/ /\ pc' = "with_exit"
        /\ browser' = "closed"
        /\ UNCHANGED << stack, idx, results, page, authed, playwright, exc,
                        err, failed, faults, ops, logins, lost, waitOutcome, returned, s, doc,
                        actual, report, writes, shots >>
     \/ Fault("m_close") /\ RaiseFrame

\* The `with` block of line 100 is left, normally or by an exception.
WithExit ==
  /\ pc = "with_exit"
  /\ playwright' = "stopped"
  /\ browser' = StopPlaywright(browser)
  /\ pc' = IF exc = "none" THEN "done" ELSE "aborted"
  /\ UNCHANGED << stack, idx, results, page, authed, exc, err, failed,
                  faults, ops, logins, lost, waitOutcome, returned, s, doc, actual, report,
                  writes, shots >>

\* ------------------------------------------------------------ specification

Init ==
  /\ pc = "start"
  /\ stack = <<>>
  /\ idx = 0
  /\ results = <<>>
  /\ page = BlankPage
  /\ authed = FALSE
  /\ browser = "none"
  /\ playwright = "none"
  /\ exc = "none"
  /\ err = "none"
  /\ failed = "none"
  /\ faults = 0
  /\ ops = <<>>
  /\ logins = 0
  /\ lost = 0
  /\ waitOutcome = <<>>
  /\ returned = <<>>
  /\ s = NoSummary
  /\ doc = NoDoc
  /\ actual = <<>>
  /\ report = NoReport
  /\ writes = 0
  /\ shots = {}

wait_stable == WsNetworkIdle \/ WsDomContentLoaded \/ WsSettle

login == LgGoto \/ LgWait \/ LgShot \/ LgFillAgent \/ LgFillPin \/ LgClick
           \/ LgWait2 \/ LgSettle \/ LgReturn

main ==
  \/ Launch \/ MLogin \/ MResults \/ ForNext \/ ForEnd
  \/ MGoto \/ MWait \/ MCheck \/ MRelogin \/ MRegoto \/ MRewait
  \/ MShot \/ MCapture \/ MAppend \/ MPrint \/ MExcept
  \/ MReport \/ MClose \/ WithExit

Next == main \/ login \/ wait_stable

Spec == Init /\ [][Next]_vars

\* The script is one sequential thread whose every call returns or raises
\* within its timeout, so a step that can be taken is eventually taken.
SpecLive == Spec /\ WF_vars(Next)

\* --------------------------------------- login() invoked twice in succession

\* The first of two consecutive calls login(page); login(page) on one page.
HFirst ==
  /\ pc = "h_first"
  /\ Call("lg_goto", "h_second")
  /\ logins' = logins + 1
  /\ lost' = lost
  /\ Log("login")
  /\ UNCHANGED << idx, results, page, authed, browser, playwright, exc, err,
                  failed, faults, waitOutcome, returned, s, doc, actual, report, writes,
                  shots >>

\* The second call, made as soon as the first has returned.
HSecond ==
  /\ pc = "h_second"
  /\ Call("lg_goto", "h_done")
  /\ logins' = logins + 1
  /\ lost' = lost
  /\ Log("login")
  /\ UNCHANGED << idx, results, page, authed, browser, playwright, exc, err,
                  failed, faults, waitOutcome, returned, s, doc, actual, report, writes,
                  shots >>

InitLogin ==
  /\ pc = "h_first"
  /\ stack = <<>>
  /\ idx = 0
  /\ results = <<>>
  /\ page = BlankPage
  /\ authed = FALSE
  /\ browser = "open"
  /\ playwright = "running"
  /\ exc = "none"
  /\ err = "none"
  /\ failed = "none"
  /\ faults = 0
  /\ ops = <<>>
  /\ logins = 0
  /\ lost = 0
  /\ waitOutcome = <<>>
  /\ returned = <<>>
  /\ s = NoSummary
  /\ doc = NoDoc
  /\ actual = <<>>
  /\ report = NoReport
  /\ writes = 0
  /\ shots = {}

NextLogin == HFirst \/ HSecond \/ login \/ wait_stable

SpecLogin == InitLogin /\ [][NextLogin]_vars

\* ------------------------------------ capture_structure() on its own inputs


RECURSIVE SeqsUpTo(_, _)
SeqsUpTo(S, k) ==
  IF k = 0 THEN {<<>>}
  ELSE LET shorter == SeqsUpTo(S, k - 1)
       IN  shorter \cup {Append(q, x) : q \in shorter, x \in S}

\* Runs of body text: newlines to collapse, blanks to trim, and runs that reach
\* the limit of 2000 characters together with one more character or run.
TextRuns ==
  { Run(NL, 1), Run(NL, 2), Run(SP, 1), Run(SP, TextLimit - 1),
    Run("a", 1), Run("a", TextLimit - 1) }

BodyTexts == SeqsUpTo(TextRuns, MaxTextRuns)

\* innerText of a button element: empty, blank, short, padded, and around the limit.
ButtonTexts ==
  { <<>>,
    << Run(SP, 2) >>,
    << Run("a", 1) >>,
    << Run(SP, 1), Run("b", LabelLimit - 1), Run(NL, 1) >>,
    << Run("a", LabelLimit) >>,
    << Run(SP, 1), Run("a", LabelLimit + 1) >> }

\* Numbers of consecutive equal buttons: one, and around the cap of 30.
ButtonRunLens == {1, LabelCap - 1, LabelCap + 1}

ButtonLists ==
  SeqsUpTo({Run(b, n) : b \in ButtonTexts, n \in ButtonRunLens}, MaxButtonRuns)

ExtractDocs ==
  {[PlainDoc(HomeUrl) EXCEPT !.bodyText = b] : b \in BodyTexts}
    \cup {[PlainDoc(HomeUrl) EXCEPT !.buttons = l] : l \in ButtonLists}

\* page.evaluate(...) of capture_structure in document `doc`
XCapture ==
  /\ pc = "x_capture"
  /\ pc' = "x_done"
  /\ s' = capture_structure(doc)
  /\ UNCHANGED << stack, idx, results, page, authed, browser, playwright,
                  exc, err, failed, faults, ops, logins, lost, waitOutcome, returned, doc,
                  actual, report, writes, shots >>

InitExtract ==
  /\ pc = "x_capture"
  /\ doc \in ExtractDocs
  /\ stack = <<>>
  /\ idx = 0
  /\ results = <<>>
  /\ page = [url |-> HomeUrl, form |-> FALSE]
  /\ authed = TRUE
  /\ browser = "open"
  /\ playwright = "running"
  /\ exc = "none"
  /\ err = "none"
  /\ failed = "none"
  /\ faults = 0
  /\ ops = <<>>
  /\ logins = 0
  /\ lost = 0
  /\ waitOutcome = <<>>
  /\ returned = <<>>
  /\ s = NoSummary
  /\ actual = <<>>
  /\ report = NoReport
  /\ writes = 0
  /\ shots = {}

NextExtract == XCapture

SpecExtract == InitExtract /\ [][NextExtract]_vars

\* ------------------------------------------------------------- properties

Range(q) == {q[i] : i \in 1..Len(q)}

Count(q, x) == Cardinality({i \in 1..Len(q) : q[i] = x})

Last(q) == q[Len(q)]

SummaryKeys == {"title", "text_summary", "elements", "button_labels", "sidebar_items"}

\* A success entry: the summary fields and a screenshot path, no error.
IsSuccess(e) ==
  /\ SummaryKeys \cup {"screenshot"} \subseteq DOMAIN e
  /\ "error" \notin DOMAIN e

\* A failure entry: an error, neither summary fields nor a screenshot path.
IsFailure(e) ==
  /\ "error" \in DOMAIN e
  /\ (SummaryKeys \cup {"screenshot"}) \cap DOMAIN e = {}

\* The run is over: main() returned or an exception left it.
Exited == pc \in {"done", "aborted"}

\* C1: the written report's pages has exactly one entry per configured route, in
\* route order, whatever failed and wherever the exception was raised, statements
\* after the success append included.
C1_OneEntryPerRoute ==
  writes > 0 =>
    /\ Len(report.pages) = Len(Routes)
    /\ \A i \in 1..Len(Routes) :
         i <= Len(report.pages) /\ report.pages[i].name = Routes[i].name

\* C2: every entry of results (and of the written report) is exactly one of the
\* two variants: a success entry or a failure entry.
C2_EntryVariants ==
  /\ \A i \in 1..Len(results) : IsSuccess(results[i]) # IsFailure(results[i])
  /\ writes > 0 =>
       \A i \in 1..Len(report.pages) :
         IsSuccess(report.pages[i]) # IsFailure(report.pages[i])

\* Both variants are in results, the success one with its summary.
C2_Witness ==
  /\ \E i \in 1..Len(results) : IsFailure(results[i]) /\ results[i].error # ""
  /\ \E i \in 1..Len(results) :
       IsSuccess(results[i]) /\ results[i].button_labels # <<>>

\* C3: when the navigation of line 120 raises, nothing else is done for the route
\* (no wait, session check, re-login, screenshot, extraction), a failure entry with
\* a non-empty error text is recorded for it, and the loop goes on to the next
\* route without the run being aborted.
C3_NavigationFailureIsolated ==
  failed = "m_goto" =>
    /\ ops = << "m_goto" >>
    /\ actual = <<>>
    /\ s = NoSummary
    /\ ScreenshotPath(Routes[idx].name) \notin shots
    /\ IF pc = "m_except"
       THEN err \notin {"", "none"} /\ exc = "none"
       ELSE /\ results # <<>>
            /\ IsFailure(Last(results))
            /\ Last(results).name = Routes[idx].name
            /\ Last(results).error # ""
            /\ pc \in {"m_for", "m_report", "m_close", "with_exit", "done", "aborted"}
            /\ pc = "m_for" => exc = "none"
            /\ (pc = "m_for" /\ idx < Len(Routes)) => ENABLED ForNext

\* The first route's navigation raised, the second route is a success, and the
\* run completed and wrote the report.
C3_Witness ==
  /\ pc = "done"
  /\ writes = 1
  /\ Len(report.pages) >= 2
  /\ IsFailure(report.pages[1])
  /\ report.pages[1].error = ErrText("m_goto")
  /\ IsSuccess(report.pages[2])

\* C4: the report is written at most once, only after the loop has taken every
\* route and recorded it, never before or between route visits; a completed run
\* has written it exactly once and it covers every configured route.
C4_ReportWrittenOnceAtEnd ==
  /\ writes <= 1
  /\ writes = 0 => report = NoReport
  /\ pc = "done" => writes = 1
  /\ writes = 1 =>
       /\ pc \in {"m_close", "with_exit", "done", "aborted"}
       /\ idx = Len(Routes)
       /\ report = Report(results)
       /\ \A r \in 1..Len(Routes) :
            \E i \in 1..Len(report.pages) :
              /\ report.pages[i].name = Routes[r].name
              /\ IsSuccess(report.pages[i]) \/ IsFailure(report.pages[i])

\* A completed run with a failed and a recorded route has written the report.
C4_Witness ==
  /\ pc = "done"
  /\ writes = 1
  /\ \E i \in 1..Len(report.pages) : IsFailure(report.pages[i])
  /\ \E i \in 1..Len(report.pages) : IsSuccess(report.pages[i])

\* C5: on every exit path of the run (normal, with failed routes, or with an
\* exception propagating out of main) the browser is not left open.
C5_BrowserReleased ==
  Exited => browser # "open" /\ playwright = "stopped"

\* The report could not be written: the exception skipped browser.close() and the
\* browser, launched and used, is closed all the same.
C5_Witness ==
  /\ pc = "aborted"
  /\ failed = "m_report"
  /\ browser = "closed"
  /\ results # <<>>

\* C6: login() is called exactly once before the first route is taken, and when
\* that call raises the run is aborted: no route is navigated to, no result is
\* recorded, and the error is not turned into a failure entry.
C6_InitialLoginOnceAndFatal ==
  /\ idx = 0 => logins <= 1
  /\ (idx = 0 /\ pc \in {"m_results", "m_for"}) => logins = 1 /\ failed = "none"
  /\ idx >= 1 => logins >= 1
  /\ (idx = 0 /\ failed \notin {"none", "launch"}) =>
       /\ logins = 1
       /\ pc \in {"with_exit", "aborted"}
       /\ exc # "none"
       /\ results = <<>>
       /\ writes = 0
       /\ "m_goto" \notin Range(ops)

\* The initial login raised on filling the form and the run was aborted.
C6_Witness ==
  /\ pc = "aborted"
  /\ idx = 0
  /\ logins = 1
  /\ failed = "lg_click"
  /\ exc = ErrText("lg_click")

\* C7: of two consecutive calls of login(), the second, made on a session that is
\* authenticated (its navigation to the site root has landed on a page without the
\* login form), raises nothing and returns a URL that is not a login surface.
\* Faults of the environment are set aside: faults = 0.
C7_LoginIdempotent ==
  (logins = 2 /\ Count(ops, "lg_goto") = 2 /\ authed /\ ~page.form /\ faults = 0) =>
    /\ failed = "none"
    /\ pc = "h_done" => ~Contains(returned, "login")

\* C8: when the page is still on a login surface after the recovery's second
\* wait_stable, the route goes on to the screenshot and the extraction without
\* another login, and is recorded as a success whose actual_url is the login URL.
C8_StillOnLoginProceeds ==
  idx >= 1 =>
    /\ Count(ops, "login") <= 1
    /\ ( /\ "m_regoto" \in Range(ops)
         /\ Last(ops) = "ws_settle"
         /\ stack = <<>>
         /\ failed = "none"
         /\ Contains(page.url, "login") )
       => pc = "m_shot"
    /\ ( /\ "m_regoto" \in Range(ops)
         /\ pc = "m_print"
         /\ Contains(page.url, "login") )
       => /\ IsSuccess(Last(results))
          /\ Last(results).name = Routes[idx].name
          /\ Last(results).actual_url = LoginUrl
          /\ Last(results).screenshot \in shots
          /\ Last(ops) = "m_capture"

\* A route recorded as a success on the login page after one recovery.
C8_Witness ==
  /\ idx >= 1
  /\ pc = "m_print"
  /\ Count(ops, "login") = 1
  /\ "m_regoto" \in Range(ops)
  /\ IsSuccess(Last(results))
  /\ Last(results).actual_url = LoginUrl
  /\ Last(results).title = "Login"

\* No run of two or more consecutive newlines in an encoded text.
NoNewlineRun(t) ==
  /\ \A i \in 1..Len(t) : t[i].x = NL => t[i].n = 1
  /\ \A i \in 1..(Len(t) - 1) : ~(t[i].x = NL /\ t[i + 1].x = NL)

\* The number of leading whitespace characters of an encoded text.
RECURSIVE LeadingWhitespace(_)
LeadingWhitespace(t) ==
  IF t # <<>> /\ t[1].x \in Whitespace THEN t[1].n + LeadingWhitespace(Tail(t)) ELSE 0

\* C9: the text excerpt has length at most 2000 and no run of two or more
\* newlines; the truncation comes first (a body whose first 2000 characters are
\* whitespace gives the empty excerpt, whatever follows), and the excerpt is trimmed.
C9_TextExcerptBounded ==
  pc = "x_done" =>
    LET t == s.textSummary
    IN  /\ RLen(t) <= TextLimit
        /\ NoNewlineRun(t)
        /\ LeadingWhitespace(doc.bodyText) >= TextLimit => t = <<>>
        /\ t # <<>> => t[1].x \notin Whitespace /\ Last(t).x \notin Whitespace

\* A body longer than 2000 characters with two separate runs of several newlines
\* among its first 2000, and an excerpt that keeps a newline.
C9_Witness ==
  /\ pc = "x_done"
  /\ RLen(doc.bodyText) > TextLimit
  /\ Len(doc.bodyText) = 4
  /\ doc.bodyText[1] = Run(NL, 2)
  /\ doc.bodyText[3] = Run(NL, 2)
  /\ doc.bodyText[2].x = "a"
  /\ doc.bodyText[4].x = "a"
  /\ s.textSummary = << doc.bodyText[2], Run(NL, 1), Run("a", TextLimit - 1 - 4) >>

\* The number of button elements whose trimmed text the filter keeps.
RECURSIVE KeptCount(_)
KeptCount(l) ==
  IF l = <<>> THEN 0
  ELSE (IF RLen(Trim(l[1].x)) \in 1..(LabelLimit - 1) THEN l[1].n ELSE 0)
         + KeptCount(Tail(l))

\* C10: the button label list has at most 30 entries, each of length in [1,80]
\* and trimmed; the cap is applied after the filter, so the list has 30 entries
\* whenever the document has at least 30 labels the filter keeps.
C10_ButtonLabelsBounded ==
  pc = "x_done" =>
    LET l == s.buttonLabels
        kept == KeptCount(doc.buttons)
    IN  /\ RLen(l) <= LabelCap
        /\ \A i \in 1..Len(l) :
             /\ RLen(l[i].x) >= 1
             /\ RLen(l[i].x) <= LabelLimit
             /\ l[i].x[1].x \notin Whitespace
             /\ Last(l[i].x).x \notin Whitespace
        /\ RLen(l) = IF kept < LabelCap THEN kept ELSE LabelCap

\* More than 30 button elements, a filtered-out one among the first 30, and a
\* list of exactly 30 labels.
C10_Witness ==
  /\ pc = "x_done"
  /\ Len(doc.buttons) >= 2
  /\ ~LabelKept(Trim(doc.buttons[1].x))
  /\ RLen(doc.buttons) > LabelCap
  /\ RLen(s.buttonLabels) = LabelCap

\* C11: within one route the recovery login is invoked at most once, and it is
\* invoked exactly when the URL read after the first stabilization contains
\* "login" while the route's path does not.  Over a run login is invoked at
\* most 1 + (number of routes) times: once at the start plus once per route
\* that lost its session, so exactly once when no route was redirected.
C11_RecoveryAtMostOncePerRoute ==
  /\ logins <= 1 + Len(Routes)
  /\ lost <= idx
  /\ logins >= 1 => logins = 1 + lost - (IF pc = "m_relogin" THEN 1 ELSE 0)
  /\ idx >= 1 =>
       /\ Count(ops, "login") <= 1
       /\ actual = <<>> => "login" \notin Range(ops)
       /\ (actual # <<>> /\ pc # "m_relogin") =>
            ("login" \in Range(ops)
               <=> (Contains(actual, "login")
                      /\ ~Contains(Routes[idx].path, "login")))

\* A finished run in which one route lost its session and the other did not.
C11_Witness ==
  /\ pc = "done"
  /\ Len(results) = Len(Routes)
  /\ lost = 1
  /\ logins = 2
  /\ \A i \in 1..Len(results) : IsSuccess(results[i])

\* The steps of one call of login(), in order.
LoginOrder ==
  << "lg_goto", "ws_net", "ws_dom", "ws_settle", "lg_shot", "lg_agent", "lg_pin",
     "lg_click", "ws_net", "ws_dom", "ws_settle", "lg_settle" >>

\* The steps of one call of wait_stable(), in order.
WaitOrder == << "ws_net", "ws_dom", "ws_settle" >>

\* The steps of a recovered route up to the success append.
RecoveredOrder ==
  << "m_goto" >> \o WaitOrder \o << "login" >> \o LoginOrder
     \o << "m_regoto" >> \o WaitOrder \o << "m_shot", "m_capture" >>

\* C12: when a route's first navigation lands on a login URL and recovery
\* succeeds, the route's steps are: navigation, wait, exactly one login, exactly
\* one re-navigation, one more wait, then the screenshot, then the extraction;
\* the route is recorded as a success whose actual_url is the URL the page is at
\* after the re-navigation.
C12_RecoveryOrder ==
  (idx >= 1 /\ "login" \in Range(ops) /\ failed = "none"
     /\ pc \in {"m_print", "m_for"}) =>
    /\ ops = RecoveredOrder
    /\ Contains(actual, "login")
    /\ LET e == Last(results)
       IN  /\ IsSuccess(e)
           /\ e.name = Routes[idx].name
           /\ e.actual_url = page.url
           /\ \A i \in 1..Len(results) :
                results[i].name = e.name => results[i] = e

\* A recovered route recorded with the target URL, not the login URL seen first.
C12_Witness ==
  /\ idx >= 1
  /\ pc = "m_for"
  /\ failed = "none"
  /\ "login" \in Range(ops)
  /\ Last(results).actual_url = Url(Routes[idx])
  /\ Last(results).actual_url # actual

\* The operations of login() that can raise.
LoginRaisers == {"lg_goto", "lg_shot", "lg_agent", "lg_pin", "lg_click", "lg_settle"}

\* The operations of a route that can raise after its navigation returned and
\* before its success entry is appended.
PostNavigationRaisers ==
  {"ws_settle", "m_regoto", "m_shot", "m_capture"} \cup LoginRaisers

EntriesOf(name) == {i \in 1..Len(results) : results[i].name = name}

\* C13: an error raised after a route's navigation succeeded (in the stability
\* wait, the recovery login, the re-navigation, the screenshot or the
\* extraction) is caught: the route gets exactly one entry, a failure entry
\* with the error's message, the run is not aborted and the loop goes on to the
\* next route.  A login failure during recovery is such a route-level failure.
C13_RouteErrorsAreRouteFailures ==
  (idx >= 1 /\ failed \in PostNavigationRaisers) =>
    /\ exc = "none"
    /\ pc # "aborted"
    /\ ops[1] = "m_goto"
    /\ Last(ops) = failed
    /\ failed \in LoginRaisers => "login" \in Range(ops)
    /\ IF pc = "m_except"
       THEN err = ErrText(failed) /\ EntriesOf(Routes[idx].name) = {}
       ELSE /\ EntriesOf(Routes[idx].name) = {Len(results)}
            /\ IsFailure(Last(results))
            /\ Last(results).error = ErrText(failed)
            /\ pc \in {"m_for", "m_report", "m_close", "with_exit", "done"}
            /\ (pc = "m_for" /\ idx < Len(Routes)) => ENABLED ForNext

\* The first route failed inside the recovery login, the loop went on, the
\* second route failed in the extraction, and the run completed with a report.
C13_Witness ==
  /\ pc = "done"
  /\ writes = 1
  /\ Len(results) = 2
  /\ IsFailure(results[1])
  /\ results[1].error \in {ErrText("lg_agent"), ErrText("lg_click")}
  /\ failed = "m_capture"
  /\ IsFailure(results[2])

\* C14: wait_stable attempts the network-idle wait first and the content-loaded
\* wait second, each with its own timeout; neither attempt ever raises to the
\* caller, the second is attempted whatever the first did, and the settle delay
\* runs after both attempts in every case before wait_stable returns.
C14_WaitStableOrder ==
  /\ failed \notin {"ws_net", "ws_dom"}
  /\ pc = "ws_dom" =>
       /\ Len(waitOutcome) = 1
       /\ Last(ops) = "ws_net"
  /\ pc = "ws_settle" =>
       /\ Len(waitOutcome) = 2
       /\ Len(ops) >= 2
       /\ ops[Len(ops) - 1] = "ws_net"
       /\ Last(ops) = "ws_dom"
       /\ ENABLED WsSettle
  /\ pc \in {"ws_dom", "ws_settle"} => \A i \in 1..Len(waitOutcome) :
       /\ waitOutcome[i].signal = << "networkidle", "domcontentloaded" >>[i]
       /\ waitOutcome[i].timeout =
            << IF Head(stack) = "lg_settle" THEN 15000 ELSE 10000, 5000 >>[i]
  /\ \A i \in 1..Len(ops) :
       /\ ops[i] = "ws_net" =>
            IF i = Len(ops) THEN pc = "ws_dom" ELSE ops[i + 1] = "ws_dom"
       /\ ops[i] = "ws_dom" =>
            /\ i > 1 /\ ops[i - 1] = "ws_net"
            /\ IF i = Len(ops) THEN pc = "ws_settle" ELSE ops[i + 1] = "ws_settle"
       /\ ops[i] = "ws_settle" => (i > 2 /\ ops[i - 1] = "ws_dom")

\* Both attempts of the 15000 ms call timed out and the settle delay is next.
C14_Witness ==
  /\ pc = "ws_settle"
  /\ Len(waitOutcome) = 2
  /\ waitOutcome[1].outcome = "timeout"
  /\ waitOutcome[2].outcome = "timeout"
  /\ waitOutcome[1].timeout = LoginTimeout
  /\ ENABLED WsSettle

\* <outputDir>/<name>.png, written out independently of ScreenshotPath.
RouteFile(r) == << "./screenshots", "/", Routes[r].name, ".png" >>

\* Route r has been left: the loop is past it.
RouteLeft(r) ==
  \/ r < idx
  \/ r = idx /\ pc \in {"m_for", "m_report", "m_close", "with_exit", "done", "aborted"}

\* At most one screenshot per route, at <outputDir>/<name>.png, taken after the
\* session check and the recovery and before the extraction; every success
\* entry records that path and the file exists.
ScreenshotDiscipline ==
  /\ \A r1, r2 \in 1..Len(Routes) : RouteFile(r1) = RouteFile(r2) => r1 = r2
  /\ shots \subseteq {LoginShot} \cup {RouteFile(r) : r \in 1..idx}
  /\ idx >= 1 =>
       /\ Count(ops, "m_shot") <= 1
       /\ RouteFile(idx) \in shots => ("m_shot" \in Range(ops) /\ failed # "m_shot")
       /\ \A i \in 1..Len(ops) : ops[i] = "m_shot" =>
            /\ actual # <<>>
            /\ SessionLost(actual, Routes[idx].path) =>
                 \E j, k \in 1..(i - 1) :
                   j < k /\ ops[j] = "login" /\ ops[k] = "m_regoto"
            /\ \A j \in 1..(i - 1) : ops[j] # "m_capture"
            /\ \A j \in (i + 1)..Len(ops) :
                 ops[j] \in {"m_capture", "m_print", "m_report", "m_close"}
       /\ "m_capture" \in Range(ops) => RouteFile(idx) \in shots
  /\ \A i \in 1..Len(results) : IsSuccess(results[i]) =>
       \E r \in 1..idx :
         /\ results[i].name = Routes[r].name
         /\ results[i].screenshot = RouteFile(r)
         /\ RouteFile(r) \in shots

HasSuccessEntry(r) ==
  \E i \in 1..Len(results) : IsSuccess(results[i]) /\ results[i].name = Routes[r].name

HasExtractionFailureEntry(r) ==
  \E i \in 1..Len(results) :
    /\ IsFailure(results[i])
    /\ results[i].name = Routes[r].name
    /\ results[i].error = ErrText("m_capture")

\* C15 as stated: the screenshot discipline, and a route screenshot file exists
\* only for a route that is recorded as a success.
C15_ScreenshotOnlyForSuccess ==
  /\ ScreenshotDiscipline
  /\ \A r \in 1..idx : (RouteLeft(r) /\ RouteFile(r) \in shots) => HasSuccessEntry(r)

\* C15, amended: at most one screenshot per route, at <outputDir>/<name>.png,
\* taken after the session check and the recovery and before the extraction;
\* every success entry records that path and its file exists; a route's file
\* exists only if the route is recorded as a success or as a failure of the
\* extraction that follows the screenshot.
C15_ScreenshotPerRoute ==
  /\ ScreenshotDiscipline
  /\ \A r \in 1..idx : (RouteLeft(r) /\ RouteFile(r) \in shots) =>
       (HasSuccessEntry(r) \/ HasExtractionFailureEntry(r))

\* A finished run: the first route's screenshot exists but its extraction
\* raised, the second route is a success with its screenshot.
C15_Witness ==
  /\ pc = "done"
  /\ RouteFile(1) \in shots
  /\ ~HasSuccessEntry(1)
  /\ HasExtractionFailureEntry(1)
  /\ RouteFile(2) \in shots
  /\ HasSuccessEntry(2)

RouteIndex(name) == CHOOSE r \in 1..Len(Routes) : Routes[r].name = name

\* C16: routes are processed one at a time in list order by a single thread of
\* control: whenever route i+1 is taken from the list, and while any operation
\* for it runs, every earlier route has its entry recorded and no later route
\* has one; entries appear in list order; and at most one navigation can be
\* started in any state.
C16_StrictlySequential ==
  /\ Len(stack) <= 2
  /\ \A r \in 1..Len(Routes) :
       /\ r < idx => EntriesOf(Routes[r].name) # {}
       /\ r > idx => EntriesOf(Routes[r].name) = {}
  /\ \A i, j \in 1..Len(results) :
       i < j => RouteIndex(results[i].name) <= RouteIndex(results[j].name)
  /\ ENABLED ForNext => (idx >= 1 => EntriesOf(Routes[idx].name) # {})
  /\ ~(ENABLED MGoto /\ ENABLED MRegoto)
  /\ ~(ENABLED MGoto /\ ENABLED LgGoto)
  /\ ~(ENABLED MRegoto /\ ENABLED LgGoto)
  /\ (ENABLED MGoto \/ ENABLED MRegoto \/ ENABLED LgGoto) =>
       ~(ENABLED wait_stable \/ ENABLED MShot \/ ENABLED MCapture)

\* The second route is in its recovery login while the first route, which
\* failed, already has its entry.
C16_Witness ==
  /\ idx = 2
  /\ pc = "lg_click"
  /\ Len(results) = 1
  /\ IsFailure(results[1])
  /\ results[1].name = Routes[1].name

\* The navigations of the current route: page.goto at lines 120, 81 and 127.
Navigations == Count(ops, "m_goto") + Count(ops, "lg_goto") + Count(ops, "m_regoto")

\* The initial login() has returned to main.
InitialLoginCompleted == pc = "m_results"

\* The run has ended with every route recorded and none mid-protocol.
AllRoutesSettled ==
  /\ Exited
  /\ stack = <<>>
  /\ idx = Len(Routes)
  /\ \A r \in 1..Len(Routes) : HasSuccessEntry(r) \/
       \E i \in 1..Len(results) : IsFailure(results[i]) /\ results[i].name = Routes[r].name

\* C17: once the initial login has completed, and with every operation
\* returning or raising, the run terminates, and at termination every
\* configured route has a success or a failure entry and none is unprocessed or
\* mid-protocol; a route causes at most 3 navigations.
C17_TerminatesWithAllRoutesSettled ==
  /\ [](idx >= 1 => Navigations <= 3)
  /\ [](Exited /\ idx >= 1 => AllRoutesSettled)
  /\ InitialLoginCompleted ~> AllRoutesSettled

\* A terminated run whose last route took all three navigations.
C17_Witness ==
  /\ AllRoutesSettled
  /\ Navigations = 3
  /\ lost >= 1

\* The operations logged since the latest call of login().
SinceLogin ==
  LET k == CHOOSE i \in 1..Len(ops) :
             ops[i] = "login" /\ \A j \in (i + 1)..Len(ops) : ops[j] # "login"
  IN  SubSeq(ops, k + 1, Len(ops))

\* How many of them belong to that call: its steps are the leading ones.
LoginStepsDone ==
  LET q == SinceLogin
      n == IF Len(q) < Len(LoginOrder) THEN Len(q) ELSE Len(LoginOrder)
  IN  Cardinality({i \in 1..n : \A j \in 1..i : q[j] \in Range(LoginOrder)})

InLogin ==
  pc \in {"lg_goto", "lg_wait", "lg_shot", "lg_agent", "lg_pin", "lg_click",
          "lg_wait2", "lg_settle", "lg_return"}
    \/ (pc \in {"ws_net", "ws_dom", "ws_settle"} /\ Len(stack) = 2)

\* C18: every call of login() runs its steps in the fixed order navigate to the
\* site root, wait, screenshot, fill the agent id, fill the PIN, click submit,
\* wait again, and then returns the URL the page is at; a step that raises ends
\* the call (no later step of it runs), and failure is never reported through
\* the return value: the call returns only after every step succeeded, whatever
\* page it ended on.
C18_LoginStepOrder ==
  "login" \in Range(ops) =>
    /\ \A i \in 1..LoginStepsDone : SinceLogin[i] = LoginOrder[i]
    /\ InLogin => LoginStepsDone = Len(SinceLogin)
    /\ pc = "lg_return" => (SinceLogin = LoginOrder /\ failed = "none")
    /\ (~InLogin /\ Last(ops) = "lg_settle" /\ failed = "none") =>
         /\ SinceLogin = LoginOrder
         /\ returned = page.url
         /\ pc \in {"m_results", "m_for", "m_regoto", "h_second", "h_done"}
    /\ failed \in LoginRaisers =>
         /\ Last(ops) = failed
         /\ ~InLogin
         /\ stack = <<>>
         /\ LoginStepsDone = Len(SinceLogin)
         /\ LoginStepsDone < Len(LoginOrder) \/ failed = "lg_settle"
    /\ (failed = "ws_settle" /\ LoginStepsDone \in {4, 11}) =>
         (Last(ops) = failed /\ ~InLogin /\ stack = <<>>)

\* The recovery login returned normally although the page is still the login
\* page: the outcome shows in the returned URL only as a URL.
C18_Witness ==
  /\ pc = "m_regoto"
  /\ stack = <<>>
  /\ failed = "none"
  /\ SinceLogin = LoginOrder
  /\ returned = LoginUrl
  /\ returned # SITE

====
